---- MODULE Spec2Model ----
(***************************************************************************)
(* A model of the intmax2 mining CLI's claim witness builder               *)
(* (services/claim/witness_generation.rs) and of its three mode loops      *)
(* (services/mod.rs: mining_loop, exit_loop, claim_loop).                  *)
(*                                                                         *)
(* One behaviour is one call of one entry point: Init chooses the entry    *)
(* point (mode) and its arguments, the actions are the steps of that call  *)
(* between two suspension points, and pc = "done" is the call's return     *)
(* (or panic), with the outcome in result.                                 *)
(***************************************************************************)
EXTENDS Integers, Sequences, FiniteSets, TLC

VARIABLES
    mode,              \* the entry point this behaviour runs
    pc,                \* position in the entry point's code
    result,            \* the outcome once pc = "done"
    ev,                \* the observable event of the last step
    \* generate_claim_witness
    is_short_term,     \* argument
    events,            \* argument: the batch
    next_event,        \* the for loop's position in events (1-based)
    witnesses,         \* local: Vec<ClaimInnerValue>
    prev_claim_hash,   \* local: the running hash
    queries,           \* tree queries performed so far
    \* mode loops
    start_key_number,  \* argument of mining_loop
    mining_times,      \* argument of mining_loop
    key_number,        \* mining_loop's counter
    keys,              \* argument of exit_loop / claim_loop (key numbers)
    key_pos,           \* the for loop's position in keys (1-based)
    assets_status,     \* local: the snapshot of the last successful sync
    new_deposit,       \* local of mining_loop
    cooldown,          \* local of mining_loop: the task's answer
    call,              \* the task invocation made by the last step, if any
    advanced,          \* history: the key numbers a loop has moved on from
    mining_max_cooldown_in_sec,  \* the setting loaded by the last step, if any
    cooldown_secs,     \* seconds of the random sleep of the last step, if any
    synced,            \* the key number the last step synced, if any
    iteration,         \* the events of the current loop iteration, head sync first
    validated,         \* history: the key numbers whose balance was validated
    started,           \* history: the keys a sync was attempted for
    \* get_tx_receipt
    loop_count,        \* local
    receipt_queries,   \* get_transaction_receipt calls made so far
    receipt_sleeps,    \* 10 second sleeps made so far
    \* balance_transfer
    balance,           \* local: the balance of the deposit address
    estimated_gas,     \* local
    max_fee_per_gas,   \* local
    gas_budget,        \* local
    sent               \* the value of the transaction sent, if any

vars == <<mode, pc, result, ev, is_short_term, events, next_event, witnesses,
          prev_claim_hash, queries, start_key_number, mining_times, key_number,
          keys, key_pos, assets_status, new_deposit, cooldown, call, advanced,
          mining_max_cooldown_in_sec, cooldown_secs, synced, iteration,
          validated, started, loop_count, receipt_queries, receipt_sleeps,
          balance, estimated_gas, max_fee_per_gas, gas_budget, sent>>

witnessVars == <<is_short_term, events, next_event, witnesses, prev_claim_hash,
                 queries>>

loopVars == <<start_key_number, mining_times, key_number, keys, key_pos,
              assets_status, new_deposit, cooldown, advanced>>

stepVars == <<call, mining_max_cooldown_in_sec, cooldown_secs, synced,
              iteration, validated, started>>

receiptVars == <<loop_count, receipt_queries, receipt_sleeps>>

transferVars == <<balance, estimated_gas, max_fee_per_gas, gas_budget, sent>>

chainVars == <<receiptVars, transferVars>>

----------------------------------------------------------------------------
(* Bounds of the model. *)

MaxFreeLen == 2      \* batches are free up to this length, then padded
MaxNonce == 2        \* tx nonces of the free events
MaxDeposits == 2     \* senders_deposits.len() of a snapshot
MaxTimes == 2        \* mining_times
MaxStart == 1        \* start_key_number
MaxAdvance == 2      \* key advancements of mining_loop that are followed
MaxKeys == 2         \* keys handed to exit_loop / claim_loop
MaxCooldown == 2     \* mining_max_cooldown_in_sec
MaxGas == 2          \* estimated gas of the transfer
MaxFee == 2          \* max_fee_per_gas of the transfer

(* services::claim::MAX_CLAIMS, imported at witness_generation.rs:11. *)
MAX_CLAIMS == 10

----------------------------------------------------------------------------
(* Outcomes. *)

NoResult == [kind |-> "none", msg |-> "", arg |-> <<>>]
OkResult == [kind |-> "Ok", msg |-> "", arg |-> <<>>]
Err(msg, arg) == [kind |-> "Err", msg |-> msg, arg |-> arg]
Panic(msg) == [kind |-> "Panic", msg |-> msg, arg |-> <<>>]
NetworkError(address, e) ==
    [kind |-> "NetworkError",
     msg |-> "Failed while fetching assets status for",
     arg |-> <<address, e>>]

----------------------------------------------------------------------------
(* The state read by generate_claim_witness: the deposit hash tree and the *)
(* two eligibility trees.  The builder only reads them, so they are fixed. *)

None == -1           \* Option::None of an index lookup

(* Deposit::hash(): a symbolic digest of the deposit. *)
DepositHash(deposit) == <<"deposit_hash", deposit>>

(* state.deposit_hash_tree: deposits 1..3 were synced, deposit 4 was not. *)
DepositTreeLeaves == <<DepositHash(1), DepositHash(2), DepositHash(3)>>

(* Leaves of the eligibility trees: deposit index 0 is eligible in both,   *)
(* deposit index 1 only long term, deposit index 2 only short term.        *)
ShortTermLeaves ==
    <<[deposit_index |-> 2, amount |-> 7], [deposit_index |-> 0, amount |-> 5]>>
LongTermLeaves ==
    <<[deposit_index |-> 1, amount |-> 9], [deposit_index |-> 0, amount |-> 3],
      [deposit_index |-> 0, amount |-> 0]>>

(* Variant: the long-term tree whatever the flag. *)
TreeNameAlt(short) == "long_term"
(* Lines 32-36: the eligibility tree selected by is_short_term. *)
TreeName(short) == IF short THEN "short_term" ELSE "long_term"
EligibleLeaves(tree) ==
    IF tree = "short_term" THEN ShortTermLeaves ELSE LongTermLeaves

(* get_root(): a digest of all the leaves. *)
DepositTreeRoot == <<"root", "deposit", DepositTreeLeaves>>
EligibleTreeRoot(tree) == <<"root", tree, EligibleLeaves(tree)>>

(* deposit_hash_tree.get_index(hash): the 0-based position of the hash. *)
DepositGetIndex(hash) ==
    IF \E i \in 1..Len(DepositTreeLeaves) : DepositTreeLeaves[i] = hash
    THEN (CHOOSE i \in 1..Len(DepositTreeLeaves) : DepositTreeLeaves[i] = hash) - 1
    ELSE None

(* eligible_tree.get_leaf_index(deposit_index): the 0-based position of    *)
(* the first leaf of that deposit index.                                   *)
GetLeafIndex(tree, deposit_index) ==
    LET leaves == EligibleLeaves(tree)
        hits == {i \in 1..Len(leaves) : leaves[i].deposit_index = deposit_index}
    IN  IF hits = {} THEN None
        ELSE (CHOOSE i \in hits : \A j \in hits : i <= j) - 1

(* prove(index): the inclusion proof of a position under a tree's root. *)
DepositProve(index) ==
    [root |-> DepositTreeRoot, index |-> index, leaf |-> DepositTreeLeaves[index + 1]]
EligibleProve(tree, index) ==
    [root |-> EligibleTreeRoot(tree), index |-> index,
     leaf |-> EligibleLeaves(tree)[index + 1]]
EligibleGetLeaf(tree, index) == EligibleLeaves(tree)[index + 1]

----------------------------------------------------------------------------
(* The key of a claim batch and what is derived from it. *)

ClaimKey == [deposit_private_key |-> 11, withdrawal_address |-> 22]
DerivePubkey(private_key) == <<"pubkey", private_key>>
DeriveSalt(private_key, nonce) == <<"salt", private_key, nonce>>
RecipientOf(withdrawal_address) == <<"intmax_address", withdrawal_address>>

ZeroHash == <<>>     \* Bytes32::default()

(* ClaimInnerValue::new: the witness of one event.  Its new_claim_hash     *)
(* digests the previous hash and the claim (recipient, amount); the digest *)
(* is symbolic: the chain of everything hashed so far.                     *)
ClaimInnerValueNew(deposit_tree_root, deposit_index, deposit_merkle_proof, deposit, eligible_tree_root, eligible_index, eligible_merkle_proof, eligible_leaf, pubkey, salt, recipient, prev) ==
    [deposit_tree_root |-> deposit_tree_root,
     deposit_index |-> deposit_index,
     deposit_merkle_proof |-> deposit_merkle_proof,
     deposit |-> deposit,
     eligible_tree_root |-> eligible_tree_root,
     eligible_index |-> eligible_index,
     eligible_merkle_proof |-> eligible_merkle_proof,
     eligible_leaf |-> eligible_leaf,
     pubkey |-> pubkey,
     salt |-> salt,
     recipient |-> recipient,
     prev_claim_hash |-> prev,
     new_claim_hash |->
         Append(prev, [recipient |-> recipient, amount |-> eligible_leaf.amount])]

----------------------------------------------------------------------------
(* The batches generate_claim_witness is called with: every sequence of    *)
(* up to MaxFreeLen events over deposits 1..4 and nonces 1..MaxNonce,      *)
(* continued up to MAX_CLAIMS + 1 events by claimable events of deposit 1  *)
(* with fresh nonces.                                                      *)

FreeEvents == [deposit : 1..4, tx_nonce : 1..MaxNonce]
PadEvent(i) == [deposit |-> 1, tx_nonce |-> MaxNonce + i]
FreeBatches == UNION {[1..n -> FreeEvents] : n \in 0..MaxFreeLen}
Pad(batch, n) ==
    IF n <= Len(batch) THEN batch
    ELSE [i \in 1..n |-> IF i <= Len(batch) THEN batch[i] ELSE PadEvent(i)]
Batches == {Pad(b, n) : b \in FreeBatches, n \in 0..(MAX_CLAIMS + 1)}

----------------------------------------------------------------------------
(* generate_claim_witness *)

Q(tree, op) == <<tree, op>>

(* Variant: the upper bound compared with < instead of <=. *)
CheckBatchAlt(batch) ==
    IF Len(batch) = 0 THEN Err("No event to generate witness", <<>>)
    ELSE IF Len(batch) < MAX_CLAIMS THEN NoResult
    ELSE Err("Max {} events to generate witness", <<MAX_CLAIMS>>)
(* Lines 26-30: the two ensure! preconditions, in the code's order; NoResult *)
(* when both pass.                                                         *)
CheckBatch(batch) ==
    IF ~(Len(batch) > 0) THEN Err("No event to generate witness", <<>>)
    ELSE IF ~(Len(batch) <= MAX_CLAIMS)
         THEN Err("Max {} events to generate witness", <<MAX_CLAIMS>>)
         ELSE NoResult

(* Variant: the roots read before the preconditions are checked. *)
RootQueriesAlt(checked, tree) ==
    {Q("deposit", "get_root"), Q(tree, "get_root")}
(* The tree queries of lines 31-38, made once the preconditions passed. *)
RootQueries(checked, tree) ==
    IF checked.kind = "none"
    THEN {Q("deposit", "get_root"), Q(tree, "get_root")}
    ELSE {}

(* Lines 22-42: the preconditions, the roots, the empty output. *)
GenStart ==
    /\ mode = "witness" /\ pc = "start"
    /\ LET checked == CheckBatch(events)
       IN  /\ queries' = queries \cup RootQueries(checked, TreeName(is_short_term))
           /\ IF checked.kind = "none"
              THEN /\ pc' = "w_loop"
                   /\ result' = result
              ELSE /\ pc' = "done"
                   /\ result' = checked
    /\ witnesses' = <<>>
    /\ prev_claim_hash' = ZeroHash
    /\ next_event' = 1
    /\ ev' = "gen_start"
    /\ UNCHANGED <<mode, is_short_term, events>>
    /\ UNCHANGED loopVars
    /\ UNCHANGED stepVars
    /\ UNCHANGED chainVars

(* Variant: the miss returned as an error (ok_or(..)?), not unwrapped. *)
UnwrapAlt(option) ==
    IF option = None THEN Err("LookupError", <<>>) ELSE NoResult
(* The outcome of one Option::unwrap(). *)
Unwrap(option) ==
    IF option = None
    THEN Panic("called Option::unwrap() on a None value")
    ELSE NoResult

(* Variant: the running hash never advanced. *)
NextPrevClaimHashAlt(prev, value) == prev
(* Line 69: the running hash after a witness was built. *)
NextPrevClaimHash(prev, value) == value.new_claim_hash

(* Variant: the output overwritten instead of extended. *)
PushWitnessAlt(ws, value) == <<value>>
(* Line 70: witnesses.push(value). *)
PushWitness(ws, value) == Append(ws, value)

(* Variant: the salt derived from the deposit instead of the nonce. *)
EventSaltAlt(key, event) == DeriveSalt(key.deposit_private_key, event.deposit)
(* Line 54: get_salt_from_private_key_nonce(key.deposit_private_key,       *)
(* event.tx_nonce).                                                        *)
EventSalt(key, event) == DeriveSalt(key.deposit_private_key, event.tx_nonce)

(* Lines 43-71: one iteration of the for loop.  constructed is the answer  *)
(* of the validation done by ClaimInnerValue::new.                         *)
GenStep(constructed) ==
    /\ mode = "witness" /\ pc = "w_loop"
    /\ next_event <= Len(events)
    /\ LET event == events[next_event]
           tree == TreeName(is_short_term)
           deposit_index == DepositGetIndex(DepositHash(event.deposit))
           eligible_index == GetLeafIndex(tree, deposit_index)
       IN  IF deposit_index = None
           THEN /\ queries' = queries \cup {Q("deposit", "get_index")}
                /\ pc' = "done"
                /\ result' = Unwrap(deposit_index)
                /\ UNCHANGED <<witnesses, prev_claim_hash, next_event>>
           ELSE IF eligible_index = None
           THEN /\ queries' = queries \cup
                       {Q("deposit", "get_index"), Q("deposit", "prove"),
                        Q(tree, "get_leaf_index")}
                /\ pc' = "done"
                /\ result' = Unwrap(eligible_index)
                /\ UNCHANGED <<witnesses, prev_claim_hash, next_event>>
           ELSE /\ queries' = queries \cup
                       {Q("deposit", "get_index"), Q("deposit", "prove"),
                        Q(tree, "get_leaf_index"), Q(tree, "prove"),
                        Q(tree, "get_leaf")}
                /\ IF constructed
                   THEN LET value == ClaimInnerValueNew(
                                DepositTreeRoot, deposit_index,
                                DepositProve(deposit_index), event.deposit,
                                EligibleTreeRoot(tree), eligible_index,
                                EligibleProve(tree, eligible_index),
                                EligibleGetLeaf(tree, eligible_index),
                                DerivePubkey(ClaimKey.deposit_private_key),
                                EventSalt(ClaimKey, event),
                                RecipientOf(ClaimKey.withdrawal_address),
                                prev_claim_hash)
                        IN  /\ prev_claim_hash' =
                                   NextPrevClaimHash(prev_claim_hash, value)
                            /\ witnesses' = PushWitness(witnesses, value)
                            /\ next_event' = next_event + 1
                            /\ UNCHANGED <<pc, result>>
                   ELSE /\ pc' = "done"
                        /\ result' = Err("ClaimInnerValue::new", <<>>)
                        /\ UNCHANGED <<witnesses, prev_claim_hash, next_event>>
    /\ ev' = "gen_step"
    /\ UNCHANGED <<mode, is_short_term, events>>
    /\ UNCHANGED loopVars
    /\ UNCHANGED stepVars
    /\ UNCHANGED chainVars

(* Line 72: Ok(witnesses). *)
GenReturn ==
    /\ mode = "witness" /\ pc = "w_loop"
    /\ next_event > Len(events)
    /\ pc' = "done"
    /\ result' = OkResult
    /\ ev' = "gen_return"
    /\ UNCHANGED witnessVars
    /\ UNCHANGED <<mode>>
    /\ UNCHANGED loopVars
    /\ UNCHANGED stepVars
    /\ UNCHANGED chainVars

----------------------------------------------------------------------------
(* What the mode loops consume from their collaborators. *)

(* AssetsStatus: n is senders_deposits.len(); the index sets hold indices  *)
(* of those deposits.  The loops read the sets only through is_empty(), so *)
(* the snapshots carry the sets over the first deposit's index alone.      *)
TrackedIndices(n) == IF n = 0 THEN {} ELSE {0}
Snapshots ==
    UNION {[n : {n},
            pending_indices : SUBSET TrackedIndices(n),
            rejected_indices : SUBSET TrackedIndices(n),
            not_withdrawn_indices : SUBSET TrackedIndices(n),
            not_claimed_indices : SUBSET TrackedIndices(n)]
           : n \in 0..MaxDeposits}

NoStatus == [n |-> 0, pending_indices |-> {}, rejected_indices |-> {},
             not_withdrawn_indices |-> {}, not_claimed_indices |-> {}]

(* state.sync_and_fetch_assets(key): a fresh snapshot, or a failure. *)
SyncResults ==
    {[ok |-> TRUE, snap |-> s] : s \in Snapshots}
        \cup {[ok |-> FALSE, snap |-> NoStatus]}
SyncFailure == "sync_and_fetch_assets failed"

(* Key::new(withdrawal_private_key, key_number).deposit_address *)
DepositAddress(number) == <<"deposit_address", number>>

NoCall == [task |-> "none", key |-> -1, status |-> NoStatus,
           new_deposit |-> FALSE, is_exit |-> FALSE]
TaskCall(task, key, status, deposit, exit) ==
    [task |-> task, key |-> key, status |-> status,
     new_deposit |-> deposit, is_exit |-> exit]

(* Sequences of distinct key numbers: Keys::to_keys(). *)
KeyLists ==
    {ks \in UNION {[1..n -> 0..(MaxKeys - 1)] : n \in 0..MaxKeys} :
        \A i, j \in 1..Len(ks) : i # j => ks[i] # ks[j]}

----------------------------------------------------------------------------
(* Cooldowns, shared by the loops. *)

(* A step that invokes no task and sleeps no random cooldown. *)
NoSleep ==
    /\ mining_max_cooldown_in_sec' = -1
    /\ cooldown_secs' = -1
NoTaskNoSleep ==
    /\ call' = NoCall
    /\ NoSleep

(* common_loop_cool_down, lines 132-138: loaded is whether Settings::load() *)
(* succeeded; expect() panics when it did not.                             *)
LoopCooldown(loaded, back) ==
    /\ ev' = IF loaded THEN "loop_cooldown" ELSE "loop_cooldown_failed"
    /\ IF loaded
       THEN /\ pc' = back
            /\ result' = result
       ELSE /\ pc' = "done"
            /\ result' = Panic("Failed to load settings")

----------------------------------------------------------------------------
(* mining_loop *)

(* Variant: the quota compared with > instead of >=. *)
MiningSettledAlt(status, times) ==
    /\ status.n > times
    /\ status.pending_indices = {}
    /\ status.rejected_indices = {}
    /\ status.not_withdrawn_indices = {}
(* Lines 45-48: all deposits made and settled. *)
MiningSettled(status, times) ==
    /\ status.n >= times
    /\ status.pending_indices = {}
    /\ status.rejected_indices = {}
    /\ status.not_withdrawn_indices = {}

(* Variant: the pending check dropped. *)
NewDepositAlt(status, times) == status.n < times
(* Lines 57-58. *)
NewDeposit(status, times) ==
    (status.n < times) /\ (status.pending_indices = {})

(* Line 30. *)
MiningStart ==
    /\ mode = "mining" /\ pc = "start"
    /\ key_number' = start_key_number
    /\ pc' = "m_key"
    /\ ev' = "start"
    /\ UNCHANGED <<mode, result>>
    /\ UNCHANGED witnessVars
    /\ UNCHANGED chainVars
    /\ UNCHANGED <<start_key_number, mining_times, keys, key_pos, assets_status,
                   new_deposit, cooldown, advanced>>
    /\ NoTaskNoSleep
    /\ synced' = -1
    /\ UNCHANGED started
    /\ iteration' = <<>>
    /\ UNCHANGED validated

(* Lines 32-34: the key of this round and its first sync. *)
MiningSyncKey(r) ==
    /\ mode = "mining" /\ pc = "m_key"
    /\ IF r.ok
       THEN /\ assets_status' = r.snap
            /\ ev' = "sync"
            /\ pc' = "m_validate"
            /\ result' = result
       ELSE /\ assets_status' = assets_status
            /\ ev' = "sync_failed"
            /\ pc' = "done"
            /\ result' = Err(SyncFailure, <<>>)
    /\ UNCHANGED <<mode>>
    /\ UNCHANGED witnessVars
    /\ UNCHANGED chainVars
    /\ UNCHANGED <<start_key_number, mining_times, key_number, keys, key_pos,
                   new_deposit, cooldown, advanced>>
    /\ NoTaskNoSleep
    /\ synced' = IF r.ok THEN key_number ELSE -1
    /\ started' = started \cup {key_number}
    /\ iteration' = <<ev'>>
    /\ UNCHANGED validated

(* Lines 36-42: validate_deposit_address_balance(..).await? *)
MiningValidate(valid) ==
    /\ mode = "mining" /\ pc = "m_validate"
    /\ ev' = "validate"
    /\ IF valid
       THEN /\ pc' = "m_sync"
            /\ result' = result
       ELSE /\ pc' = "done"
            /\ result' = Err("validate_deposit_address_balance failed", <<>>)
    /\ UNCHANGED <<mode>>
    /\ UNCHANGED witnessVars
    /\ UNCHANGED chainVars
    /\ UNCHANGED loopVars
    /\ NoTaskNoSleep
    /\ synced' = -1
    /\ UNCHANGED started
    /\ iteration' = Append(iteration, ev')
    /\ validated' = Append(validated, key_number)

(* Variant: a key number skipped. *)
AdvanceKeyAlt(number) == number + 2
(* Line 54: key_number += 1. *)
AdvanceKey(number) == number + 1

(* Lines 44-58: the sync at the head of the inner loop, the advancement   *)
(* predicate and the decision on new_deposit.                              *)
MiningSync(r) ==
    /\ mode = "mining" /\ pc = "m_sync"
    /\ IF ~r.ok
       THEN /\ ev' = "sync_failed"
            /\ pc' = "done"
            /\ result' = Err(SyncFailure, <<>>)
            /\ UNCHANGED <<assets_status, key_number, advanced, new_deposit>>
       ELSE /\ ev' = "sync"
            /\ assets_status' = r.snap
            /\ result' = result
            /\ IF MiningSettled(r.snap, mining_times)
               THEN /\ key_number < start_key_number + MaxAdvance
                    /\ key_number' = AdvanceKey(key_number)
                    /\ advanced' = advanced \cup {key_number}
                    /\ pc' = "m_key"
                    /\ UNCHANGED new_deposit
               ELSE /\ new_deposit' = NewDeposit(r.snap, mining_times)
                    /\ pc' = "m_task"
                    /\ UNCHANGED <<key_number, advanced>>
    /\ UNCHANGED <<mode>>
    /\ UNCHANGED witnessVars
    /\ UNCHANGED chainVars
    /\ UNCHANGED <<start_key_number, mining_times, keys, key_pos, cooldown>>
    /\ NoTaskNoSleep
    /\ synced' = IF r.ok THEN key_number ELSE -1
    /\ started' = started \cup {key_number}
    /\ iteration' = <<ev'>>
    /\ UNCHANGED validated

(* Lines 59-60: mining_task(state, &key, &assets_status, new_deposit,     *)
(* false, mining_unit).await?                                              *)
MiningTask(ok, answer) ==
    /\ mode = "mining" /\ pc = "m_task"
    /\ ev' = "task"
    /\ call' = TaskCall("mining", key_number, assets_status, new_deposit, FALSE)
    /\ IF ok
       THEN /\ cooldown' = answer
            /\ pc' = "m_resync"
            /\ result' = result
       ELSE /\ cooldown' = cooldown
            /\ pc' = "done"
            /\ result' = Err("mining_task failed", <<>>)
    /\ UNCHANGED <<mode>>
    /\ UNCHANGED witnessVars
    /\ UNCHANGED chainVars
    /\ UNCHANGED <<start_key_number, mining_times, key_number, keys, key_pos,
                   assets_status, new_deposit, advanced>>
    /\ NoSleep
    /\ synced' = -1
    /\ UNCHANGED started
    /\ iteration' = Append(iteration, ev')
    /\ UNCHANGED validated

(* Variant: the randomized cooldown skipped. *)
AfterResyncAlt(requested) == "m_cooldown"
(* Lines 65-68: the randomized cooldown only when the task asked for it. *)
AfterResync(requested) ==
    IF requested THEN "m_mining_cooldown" ELSE "m_cooldown"

(* Lines 62-64: the sync after the task, whose snapshot is printed. *)
MiningResync(r) ==
    /\ mode = "mining" /\ pc = "m_resync"
    /\ IF r.ok
       THEN /\ assets_status' = r.snap
            /\ ev' = "sync"
            /\ pc' = AfterResync(cooldown)
            /\ result' = result
       ELSE /\ assets_status' = assets_status
            /\ ev' = "sync_failed"
            /\ pc' = "done"
            /\ result' = Err(SyncFailure, <<>>)
    /\ UNCHANGED <<mode>>
    /\ UNCHANGED witnessVars
    /\ UNCHANGED chainVars
    /\ UNCHANGED <<start_key_number, mining_times, key_number, keys, key_pos,
                   new_deposit, cooldown, advanced>>
    /\ NoTaskNoSleep
    /\ synced' = IF r.ok THEN key_number ELSE -1
    /\ started' = started \cup {key_number}
    /\ iteration' = Append(iteration, ev')
    /\ UNCHANGED validated

(* gen_range(0..max): the values the half-open range can yield. *)
CooldownRange(max) == 0..(max - 1)

(* Lines 65-67 and mining_cooldown, lines 141-146: loaded is whether      *)
(* Settings::load() succeeded and max the mining_max_cooldown_in_sec it    *)
(* read; gen_range panics on an empty range.                               *)
MiningCooldown(loaded, max, secs) ==
    /\ mode = "mining" /\ pc = "m_mining_cooldown"
    /\ ev' = IF loaded /\ CooldownRange(max) # {}
             THEN "mining_cooldown" ELSE "mining_cooldown_failed"
    /\ call' = NoCall
    /\ IF ~loaded
       THEN /\ max = 0 /\ secs = 0
            /\ pc' = "done"
            /\ result' = Err("Settings::load failed", <<>>)
            /\ NoSleep
       ELSE /\ mining_max_cooldown_in_sec' = max
            /\ IF CooldownRange(max) = {}
               THEN /\ secs = 0
                    /\ pc' = "done"
                    /\ result' = Panic("cannot sample empty range")
                    /\ cooldown_secs' = -1
               ELSE /\ secs \in CooldownRange(max)
                    /\ cooldown_secs' = secs
                    /\ pc' = "m_cooldown"
                    /\ result' = result
    /\ UNCHANGED <<mode>>
    /\ UNCHANGED witnessVars
    /\ UNCHANGED chainVars
    /\ UNCHANGED <<start_key_number, mining_times, key_number, keys, key_pos,
                   assets_status, new_deposit, cooldown, advanced>>
    /\ synced' = -1
    /\ UNCHANGED started
    /\ iteration' = Append(iteration, ev')
    /\ UNCHANGED validated

(* Variant: the iteration repeated without a new sync. *)
InnerLoopHeadStaleAlt == "m_task"
(* Variant: the iteration repeated from the head of the outer loop. *)
InnerLoopHeadAlt == "m_key"
(* Lines 43-44: the inner loop repeats from its own sync, after the        *)
(* validation of lines 36-42.                                              *)
InnerLoopHead == "m_sync"

(* Line 68: common_loop_cool_down().await, then the next iteration. *)
MiningLoopCooldown(loaded) ==
    /\ mode = "mining" /\ pc = "m_cooldown"
    /\ LoopCooldown(loaded, InnerLoopHead)
    /\ UNCHANGED <<mode>>
    /\ UNCHANGED witnessVars
    /\ UNCHANGED chainVars
    /\ UNCHANGED loopVars
    /\ NoTaskNoSleep
    /\ synced' = -1
    /\ UNCHANGED started
    /\ iteration' = Append(iteration, ev')
    /\ UNCHANGED validated

----------------------------------------------------------------------------
(* exit_loop and claim_loop *)

(* Variant: the sync error passed on without the key's context. *)
WrapSyncErrorAlt(key, e) == Err(e, <<>>)
(* Lines 77-82 and 108-113: the map_err of a failed sync. *)
WrapSyncError(key, e) == NetworkError(DepositAddress(key), e)

(* Variant: unclaimed rewards also keep the exit loop on a key. *)
ExitDrainedAlt(status) ==
    /\ status.pending_indices = {}
    /\ status.rejected_indices = {}
    /\ status.not_withdrawn_indices = {}
    /\ status.not_claimed_indices = {}
(* Lines 84-86: nothing left to withdraw or cancel. *)
ExitDrained(status) ==
    /\ status.pending_indices = {}
    /\ status.rejected_indices = {}
    /\ status.not_withdrawn_indices = {}

(* Variant: the wrong index set read. *)
ClaimDrainedAlt(status) == status.not_withdrawn_indices = {}
(* Line 115: nothing left to claim. *)
ClaimDrained(status) == status.not_claimed_indices = {}

(* Variant: the keys taken from the back of the collection. *)
NextKeyAlt(pos, back) ==
    /\ key_pos' = IF pos <= Len(keys) THEN Len(keys) + 1 - pos ELSE pos
    /\ IF pos <= Len(keys)
       THEN /\ pc' = back
            /\ result' = result
       ELSE /\ pc' = "done"
            /\ result' = OkResult
(* The for loop over the keys: the next key, or the Ok(()) after the last *)
(* (lines 74, 101 and 105, 129).                                           *)
NextKey(pos, back) ==
    /\ key_pos' = pos
    /\ IF pos <= Len(keys)
       THEN /\ pc' = back
            /\ result' = result
       ELSE /\ pc' = "done"
            /\ result' = OkResult

(* Line 74: entering the for loop. *)
ExitStart ==
    /\ mode = "exit" /\ pc = "start"
    /\ NextKey(1, "e_sync")
    /\ ev' = "start"
    /\ UNCHANGED <<mode>>
    /\ UNCHANGED witnessVars
    /\ UNCHANGED chainVars
    /\ UNCHANGED <<start_key_number, mining_times, key_number, keys,
                   assets_status, new_deposit, cooldown, advanced>>
    /\ NoTaskNoSleep
    /\ synced' = -1
    /\ UNCHANGED started
    /\ iteration' = <<>>
    /\ UNCHANGED validated

(* Lines 77-93: the sync of an iteration and the termination predicate. *)
ExitSync(r) ==
    /\ mode = "exit" /\ pc = "e_sync"
    /\ IF ~r.ok
       THEN /\ ev' = "sync_failed"
            /\ pc' = "done"
            /\ result' = WrapSyncError(keys[key_pos], SyncFailure)
            /\ UNCHANGED <<assets_status, key_pos, advanced>>
       ELSE /\ ev' = "sync"
            /\ assets_status' = r.snap
            /\ IF ExitDrained(r.snap)
               THEN /\ NextKey(key_pos + 1, "e_sync")
                    /\ advanced' = advanced \cup {keys[key_pos]}
               ELSE /\ pc' = "e_task"
                    /\ UNCHANGED <<result, key_pos, advanced>>
    /\ UNCHANGED <<mode>>
    /\ UNCHANGED witnessVars
    /\ UNCHANGED chainVars
    /\ UNCHANGED <<start_key_number, mining_times, key_number, keys,
                   new_deposit, cooldown>>
    /\ NoTaskNoSleep
    /\ synced' = IF r.ok THEN keys[key_pos] ELSE -1
    /\ started' = started \cup {keys[key_pos]}
    /\ iteration' = <<ev'>>
    /\ UNCHANGED validated

(* Line 95: mining_task(state, key, &assets_status, false, true, 0).await? *)
ExitTask(ok) ==
    /\ mode = "exit" /\ pc = "e_task"
    /\ ev' = "task"
    /\ call' = TaskCall("mining", keys[key_pos], assets_status, FALSE, TRUE)
    /\ IF ok
       THEN /\ pc' = "e_cooldown"
            /\ result' = result
       ELSE /\ pc' = "done"
            /\ result' = Err("mining_task failed", <<>>)
    /\ UNCHANGED <<mode>>
    /\ UNCHANGED witnessVars
    /\ UNCHANGED chainVars
    /\ UNCHANGED <<start_key_number, mining_times, key_number, keys, key_pos,
                   assets_status, new_deposit, cooldown, advanced>>
    /\ NoSleep
    /\ synced' = -1
    /\ UNCHANGED started
    /\ iteration' = Append(iteration, ev')
    /\ UNCHANGED validated

(* Line 97. *)
ExitLoopCooldown(loaded) ==
    /\ mode = "exit" /\ pc = "e_cooldown"
    /\ LoopCooldown(loaded, "e_sync")
    /\ UNCHANGED <<mode>>
    /\ UNCHANGED witnessVars
    /\ UNCHANGED chainVars
    /\ UNCHANGED loopVars
    /\ NoTaskNoSleep
    /\ synced' = -1
    /\ UNCHANGED started
    /\ iteration' = Append(iteration, ev')
    /\ UNCHANGED validated

(* Line 105: entering the for loop. *)
ClaimStart ==
    /\ mode = "claim" /\ pc = "start"
    /\ NextKey(1, "c_sync")
    /\ ev' = "start"
    /\ UNCHANGED <<mode>>
    /\ UNCHANGED witnessVars
    /\ UNCHANGED chainVars
    /\ UNCHANGED <<start_key_number, mining_times, key_number, keys,
                   assets_status, new_deposit, cooldown, advanced>>
    /\ NoTaskNoSleep
    /\ synced' = -1
    /\ UNCHANGED started
    /\ iteration' = <<>>
    /\ UNCHANGED validated

(* Lines 108-121: the sync of an iteration and the termination predicate. *)
ClaimSync(r) ==
    /\ mode = "claim" /\ pc = "c_sync"
    /\ IF ~r.ok
       THEN /\ ev' = "sync_failed"
            /\ pc' = "done"
            /\ result' = WrapSyncError(keys[key_pos], SyncFailure)
            /\ UNCHANGED <<assets_status, key_pos, advanced>>
       ELSE /\ ev' = "sync"
            /\ assets_status' = r.snap
            /\ IF ClaimDrained(r.snap)
               THEN /\ NextKey(key_pos + 1, "c_sync")
                    /\ advanced' = advanced \cup {keys[key_pos]}
               ELSE /\ pc' = "c_task"
                    /\ UNCHANGED <<result, key_pos, advanced>>
    /\ UNCHANGED <<mode>>
    /\ UNCHANGED witnessVars
    /\ UNCHANGED chainVars
    /\ UNCHANGED <<start_key_number, mining_times, key_number, keys,
                   new_deposit, cooldown>>
    /\ NoTaskNoSleep
    /\ synced' = IF r.ok THEN keys[key_pos] ELSE -1
    /\ started' = started \cup {keys[key_pos]}
    /\ iteration' = <<ev'>>
    /\ UNCHANGED validated

(* Line 123: claim_task(state, key, &assets_status).await? *)
ClaimTask(ok) ==
    /\ mode = "claim" /\ pc = "c_task"
    /\ ev' = "task"
    /\ call' = TaskCall("claim", keys[key_pos], assets_status, FALSE, FALSE)
    /\ IF ok
       THEN /\ pc' = "c_cooldown"
            /\ result' = result
       ELSE /\ pc' = "done"
            /\ result' = Err("claim_task failed", <<>>)
    /\ UNCHANGED <<mode>>
    /\ UNCHANGED witnessVars
    /\ UNCHANGED chainVars
    /\ UNCHANGED <<start_key_number, mining_times, key_number, keys, key_pos,
                   assets_status, new_deposit, cooldown, advanced>>
    /\ NoSleep
    /\ synced' = -1
    /\ UNCHANGED started
    /\ iteration' = Append(iteration, ev')
    /\ UNCHANGED validated

(* Line 125. *)
ClaimLoopCooldown(loaded) ==
    /\ mode = "claim" /\ pc = "c_cooldown"
    /\ LoopCooldown(loaded, "c_sync")
    /\ UNCHANGED <<mode>>
    /\ UNCHANGED witnessVars
    /\ UNCHANGED chainVars
    /\ UNCHANGED loopVars
    /\ NoTaskNoSleep
    /\ synced' = -1
    /\ UNCHANGED started
    /\ iteration' = Append(iteration, ev')
    /\ UNCHANGED validated

----------------------------------------------------------------------------
(* The specification. *)

(* get_tx_receipt *)

LoopCountLimit == 20

(* Line 106: if loop_count > 20. *)
GiveUp(count) == count > LoopCountLimit

(* Line 103: get_client().await? *)
ReceiptStart(connected) ==
    /\ mode = "receipt" /\ pc = "start"
    /\ ev' = "get_client"
    /\ IF connected
       THEN /\ pc' = "r_loop"
            /\ result' = result
       ELSE /\ pc' = "done"
            /\ result' = Err("get_client failed", <<>>)
    /\ loop_count' = 0
    /\ UNCHANGED <<mode, receipt_queries, receipt_sleeps>>
    /\ UNCHANGED <<witnessVars, loopVars, stepVars, transferVars>>

(* Lines 105-118: one iteration of the polling loop; answer is what        *)
(* client.get_transaction_receipt(tx_hash) gives: an error, no receipt yet *)
(* or the receipt.                                                         *)
ReceiptPoll(answer) ==
    /\ mode = "receipt" /\ pc = "r_loop"
    /\ IF GiveUp(loop_count)
       THEN /\ answer = "none"
            /\ ev' = "give_up"
            /\ pc' = "done"
            /\ result' = Err("Transaction not mined for tx hash", <<>>)
            /\ UNCHANGED receiptVars
       ELSE /\ receipt_queries' = receipt_queries + 1
            /\ ev' = "query"
            /\ CASE answer = "error" ->
                      /\ pc' = "done"
                      /\ result' = Err("get_transaction_receipt failed", <<>>)
                      /\ UNCHANGED <<loop_count, receipt_sleeps>>
                 [] answer = "some" ->
                      /\ pc' = "done"
                      /\ result' = OkResult
                      /\ UNCHANGED <<loop_count, receipt_sleeps>>
                 [] answer = "none" ->
                      /\ receipt_sleeps' = receipt_sleeps + 1
                      /\ loop_count' = loop_count + 1
                      /\ UNCHANGED <<pc, result>>
    /\ UNCHANGED mode
    /\ UNCHANGED <<witnessVars, loopVars, stepVars, transferVars>>

----------------------------------------------------------------------------
(* balance_transfer *)

(* The values of an estimated gas (u64) and of a fee per gas (u128), and   *)
(* U256, scaled down: as in the source, U256 is wider than twice the       *)
(* product of the two.                                                     *)
GasValues == 0..MaxGas
FeeValues == 0..MaxFee
U256Modulus == 2 * ((MaxGas + 1) * (MaxFee + 1) * 2)
U256Values == 0..(U256Modulus - 1)
U256Mul(a, b) == (a * b) % U256Modulus
U256Sub(a, b) == (a - b + U256Modulus) % U256Modulus

(* Lines 29-31: gas_limit * max_fee_per_gas * U256::from(2u64). *)
GasBudget(gas, fee) == U256Mul(U256Mul(gas, fee), 2)

(* Variant: the balance compared with <. *)
InsufficientAlt(amount, budget) == amount < budget
(* Line 33: if balance <= gas_budget. *)
Insufficient(amount, budget) == amount <= budget

(* Line 37: balance - gas_budget. *)
TransferAmount(amount, budget) == U256Sub(amount, budget)

(* Line 23: provider.get_balance(deposit_address).await? *)
TransferGetBalance(ok, amount) ==
    /\ mode = "transfer" /\ pc = "start"
    /\ ev' = "get_balance"
    /\ IF ok
       THEN /\ balance' = amount
            /\ pc' = "t_estimate"
            /\ result' = result
       ELSE /\ amount = 0
            /\ balance' = balance
            /\ pc' = "done"
            /\ result' = Err("get_balance failed", <<>>)
    /\ UNCHANGED <<mode, estimated_gas, max_fee_per_gas, gas_budget, sent>>
    /\ UNCHANGED <<witnessVars, loopVars, stepVars, receiptVars>>

(* Lines 26-36: the two estimates, the budget and the balance check. *)
TransferEstimate(ok, gas, fee) ==
    /\ mode = "transfer" /\ pc = "t_estimate"
    /\ ev' = "estimate"
    /\ IF ~ok
       THEN /\ gas = 0 /\ fee = 0
            /\ pc' = "done"
            /\ result' = Err("estimate failed", <<>>)
            /\ UNCHANGED <<estimated_gas, max_fee_per_gas, gas_budget>>
       ELSE /\ estimated_gas' = gas
            /\ max_fee_per_gas' = fee
            /\ gas_budget' = GasBudget(gas, fee)
            /\ IF Insufficient(balance, gas_budget')
               THEN /\ pc' = "done"
                    /\ result' = OkResult
               ELSE /\ pc' = "t_send"
                    /\ result' = result
    /\ UNCHANGED <<mode, balance, sent>>
    /\ UNCHANGED <<witnessVars, loopVars, stepVars, receiptVars>>

(* Lines 37-52: the transaction of value transfer_amount is handed to      *)
(* send_transaction_with_gas_bump, whose error is passed on.               *)
TransferSend(ok) ==
    /\ mode = "transfer" /\ pc = "t_send"
    /\ ev' = "send"
    /\ sent' = TransferAmount(balance, gas_budget)
    /\ pc' = "done"
    /\ result' = IF ok THEN OkResult
                 ELSE Err("send_transaction_with_gas_bump failed", <<>>)
    /\ UNCHANGED <<mode, balance, estimated_gas, max_fee_per_gas, gas_budget>>
    /\ UNCHANGED <<witnessVars, loopVars, stepVars, receiptVars>>

----------------------------------------------------------------------------
(* RunMode's three loops (state/mode.rs), the witness builder, the receipt *)
(* polling and the balance transfer.                                       *)
Modes == {"witness", "mining", "exit", "claim", "receipt", "transfer"}

Init ==
    /\ mode \in Modes
    /\ pc = "start"
    /\ result = NoResult
    /\ ev = "none"
    /\ is_short_term \in (IF mode = "witness" THEN BOOLEAN ELSE {FALSE})
    /\ events \in (IF mode = "witness" THEN Batches ELSE {<<>>})
    /\ next_event = 1
    /\ witnesses = <<>>
    /\ prev_claim_hash = ZeroHash
    /\ queries = {}
    /\ start_key_number \in (IF mode = "mining" THEN 0..MaxStart ELSE {0})
    /\ mining_times \in (IF mode = "mining" THEN 0..MaxTimes ELSE {0})
    /\ key_number = 0
    /\ keys \in (IF mode \in {"exit", "claim"} THEN KeyLists ELSE {<<>>})
    /\ key_pos = 1
    /\ assets_status = NoStatus
    /\ new_deposit = FALSE
    /\ cooldown = FALSE
    /\ call = NoCall
    /\ advanced = {}
    /\ mining_max_cooldown_in_sec = -1
    /\ cooldown_secs = -1
    /\ synced = -1
    /\ iteration = <<>>
    /\ validated = <<>>
    /\ started = {}
    /\ loop_count = 0
    /\ receipt_queries = 0
    /\ receipt_sleeps = 0
    /\ balance = 0
    /\ estimated_gas = 0
    /\ max_fee_per_gas = 0
    /\ gas_budget = 0
    /\ sent = -1

Next ==
    \/ GenStart
    \/ \E constructed \in BOOLEAN : GenStep(constructed)
    \/ GenReturn
    \/ MiningStart
    \/ \E r \in SyncResults : MiningSyncKey(r)
    \/ \E valid \in BOOLEAN : MiningValidate(valid)
    \/ \E r \in SyncResults : MiningSync(r)
    \/ \E ok, answer \in BOOLEAN : MiningTask(ok, answer)
    \/ \E r \in SyncResults : MiningResync(r)
    \/ \E loaded \in BOOLEAN, max, secs \in 0..MaxCooldown :
           MiningCooldown(loaded, max, secs)
    \/ \E loaded \in BOOLEAN : MiningLoopCooldown(loaded)
    \/ ExitStart
    \/ \E r \in SyncResults : ExitSync(r)
    \/ \E ok \in BOOLEAN : ExitTask(ok)
    \/ \E loaded \in BOOLEAN : ExitLoopCooldown(loaded)
    \/ ClaimStart
    \/ \E r \in SyncResults : ClaimSync(r)
    \/ \E ok \in BOOLEAN : ClaimTask(ok)
    \/ \E loaded \in BOOLEAN : ClaimLoopCooldown(loaded)
    \/ \E connected \in BOOLEAN : ReceiptStart(connected)
    \/ \E answer \in {"error", "none", "some"} : ReceiptPoll(answer)
    \/ \E ok \in BOOLEAN, amount \in U256Values : TransferGetBalance(ok, amount)
    \/ \E ok \in BOOLEAN, gas \in GasValues, fee \in FeeValues :
           TransferEstimate(ok, gas, fee)
    \/ \E ok \in BOOLEAN : TransferSend(ok)

Spec == Init /\ [][Next]_vars

----------------------------------------------------------------------------
(* Properties of generate_claim_witness. *)

Returned == mode = "witness" /\ pc = "done"
Succeeded == Returned /\ result.kind = "Ok"

(* C1: in every successful result the witnesses are hash-chained: the     *)
(* first carries the zero hash as prev_claim_hash and every later one the  *)
(* new_claim_hash of its predecessor.                                      *)
C1_HashChained ==
    Succeeded =>
        /\ Len(witnesses) > 0
        /\ witnesses[1].prev_claim_hash = ZeroHash
        /\ \A i \in 2..Len(witnesses) :
               witnesses[i].prev_claim_hash = witnesses[i - 1].new_claim_hash

C1_Witness == Succeeded /\ Len(witnesses) >= 3

(* C2: an empty batch fails in the first step with "No event to generate   *)
(* witness", and no tree was queried.                                      *)
C2_EmptyBatchFailsFirst ==
    (mode = "witness" /\ Len(events) = 0 /\ pc # "start") =>
        /\ pc = "done"
        /\ result = Err("No event to generate witness", <<>>)
        /\ queries = {}

C2_Witness == Returned /\ Len(events) = 0 /\ ev = "gen_start"

(* C3: a batch of more than MAX_CLAIMS events fails in the first step with *)
(* the error that names MAX_CLAIMS, and no tree was queried; a batch of    *)
(* exactly MAX_CLAIMS events passes both preconditions and enters the loop. *)
C3_OversizedBatchFailsFirst ==
    /\ (mode = "witness" /\ Len(events) > MAX_CLAIMS /\ pc # "start") =>
           /\ pc = "done"
           /\ result = Err("Max {} events to generate witness", <<MAX_CLAIMS>>)
           /\ queries = {}
    /\ (mode = "witness" /\ Len(events) = MAX_CLAIMS /\ ev = "gen_start") =>
           /\ pc = "w_loop"
           /\ result = NoResult

C3_Witness == Returned /\ Len(events) = MAX_CLAIMS + 1 /\ ev = "gen_start"

(* C4 as stated: every non-empty batch of at most MAX_CLAIMS events ends   *)
(* in a returned sequence as long as the batch.                            *)
C4_EveryBatchReturnsEqualLength ==
    (Returned /\ Len(events) > 0 /\ Len(events) <= MAX_CLAIMS) =>
        /\ result.kind = "Ok"
        /\ Len(witnesses) = Len(events)

(* C4 amended: every batch on which generate_claim_witness succeeds is     *)
(* non-empty, has at most MAX_CLAIMS events, and the returned sequence is  *)
(* as long as the batch.                                                   *)
C4_SuccessReturnsEqualLength ==
    Succeeded =>
        /\ Len(events) > 0
        /\ Len(events) <= MAX_CLAIMS
        /\ Len(witnesses) = Len(events)

C4_Witness == Succeeded /\ Len(events) = MAX_CLAIMS

(* The event the loop stopped at has no index in the deposit tree, or its  *)
(* deposit index has no leaf in the selected eligibility tree.             *)
LookupMissed ==
    /\ Returned
    /\ ev = "gen_step"
    /\ LET deposit_index == DepositGetIndex(DepositHash(events[next_event].deposit))
       IN  \/ deposit_index = None
           \/ GetLeafIndex(TreeName(is_short_term), deposit_index) = None

(* C5: a lookup miss gives the caller a failure value and no witnesses,    *)
(* and every call ends in success or a returned failure.                   *)
C5_LookupMissReturnsFailure ==
    /\ LookupMissed => result.kind = "Err"
    /\ Returned => result.kind \in {"Ok", "Err"}

----------------------------------------------------------------------------
(* Properties of the mode loops. *)

TaskInvoked == call.task # "none"

(* C6: in mining_loop, a step that syncs, at the head of the inner loop, a *)
(* snapshot with at least mining_times deposits and empty pending,         *)
(* rejected and not-withdrawn sets advances key_number by exactly 1 and    *)
(* invokes no task; and no task is ever invoked for a key number the loop  *)
(* has advanced past, which stays below key_number.                        *)
C6_SettledKeyAdvancesOnce ==
    /\ [][(/\ mode = "mining" /\ pc = "m_sync" /\ ev' = "sync"
           /\ assets_status'.n >= mining_times
           /\ assets_status'.pending_indices = {}
           /\ assets_status'.rejected_indices = {}
           /\ assets_status'.not_withdrawn_indices = {})
          => (/\ key_number' = key_number + 1
              /\ key_number \in advanced'
              /\ call' = NoCall)]_vars
    /\ [](mode = "mining" =>
            /\ \A k \in advanced : k < key_number
            /\ TaskInvoked => (call.key = key_number /\ call.key \notin advanced))

C6_Witness ==
    mode = "mining" /\ TaskInvoked /\ advanced # {} /\ call.key = key_number

(* C7: mining_loop asks the mining task for a new deposit only on a        *)
(* snapshot with fewer than mining_times deposits and nothing pending, and *)
(* never with is_exit.                                                     *)
C7_DepositOnlyUnderQuota ==
    (mode = "mining" /\ TaskInvoked) =>
        /\ call.task = "mining"
        /\ call.is_exit = FALSE
        /\ call.new_deposit =>
               /\ call.status.n < mining_times
               /\ call.status.pending_indices = {}

C7_Witness == mode = "mining" /\ TaskInvoked /\ call.new_deposit

(* C8: in exit_loop, a step that syncs a snapshot with empty pending,      *)
(* rejected and not-withdrawn sets invokes no task and moves on to the     *)
(* next key, or returns Ok after the last; no task is invoked for a key    *)
(* the loop moved on from; and every task invocation is the mining task on *)
(* a snapshot with one of the three sets non-empty, with new_deposit =     *)
(* false and is_exit = true.                                               *)
C8_ExitStopsWhenDrained ==
    /\ [][(/\ mode = "exit" /\ pc = "e_sync" /\ ev' = "sync"
           /\ assets_status'.pending_indices = {}
           /\ assets_status'.rejected_indices = {}
           /\ assets_status'.not_withdrawn_indices = {})
          => (/\ call' = NoCall
              /\ key_pos' = key_pos + 1
              /\ keys[key_pos] \in advanced'
              /\ IF key_pos = Len(keys)
                 THEN pc' = "done" /\ result' = OkResult
                 ELSE pc' = "e_sync")]_vars
    /\ [](mode = "exit" /\ TaskInvoked =>
            /\ call.key = keys[key_pos]
            /\ call.key \notin advanced
            /\ call.task = "mining"
            /\ call.new_deposit = FALSE
            /\ call.is_exit = TRUE
            /\ \/ call.status.pending_indices # {}
               \/ call.status.rejected_indices # {}
               \/ call.status.not_withdrawn_indices # {})

C8_Witness ==
    mode = "exit" /\ pc = "done" /\ result = OkResult /\ Len(keys) = 2
        /\ advanced = {keys[1], keys[2]} /\ assets_status.not_claimed_indices # {}

(* C9: in claim_loop, every task invocation is the claim task on a         *)
(* snapshot with non-empty not_claimed_indices; a step that syncs a        *)
(* snapshot with empty not_claimed_indices invokes no task and moves on to *)
(* the next key, or returns Ok after the last; and no task is invoked for  *)
(* a key the loop moved on from.                                           *)
C9_ClaimStopsWhenClaimed ==
    /\ [][(/\ mode = "claim" /\ pc = "c_sync" /\ ev' = "sync"
           /\ assets_status'.not_claimed_indices = {})
          => (/\ call' = NoCall
              /\ key_pos' = key_pos + 1
              /\ keys[key_pos] \in advanced'
              /\ IF key_pos = Len(keys)
                 THEN pc' = "done" /\ result' = OkResult
                 ELSE pc' = "c_sync")]_vars
    /\ [](mode = "claim" /\ TaskInvoked =>
            /\ call.key = keys[key_pos]
            /\ call.key \notin advanced
            /\ call.task = "claim"
            /\ call.status.not_claimed_indices # {})

C9_Witness ==
    mode = "claim" /\ pc = "done" /\ result = OkResult /\ Len(keys) = 2
        /\ advanced = {keys[1], keys[2]} /\ assets_status.not_withdrawn_indices # {}

(* C10: in exit_loop and claim_loop a failed sync ends the run at once     *)
(* with the NetworkError that names the deposit address of the key being   *)
(* synced, and nothing happens after it: no step leaves that state.        *)
C10_SyncFailureIsFatal ==
    /\ [](mode \in {"exit", "claim"} /\ ev = "sync_failed" =>
            /\ pc = "done"
            /\ ~TaskInvoked
            /\ result.kind = "NetworkError"
            /\ result.arg = <<DepositAddress(keys[key_pos]), SyncFailure>>)
    /\ [][~(mode \in {"exit", "claim"} /\ ev = "sync_failed")]_vars

C10_Witness ==
    mode \in {"exit", "claim"} /\ ev = "sync_failed" /\ key_pos = 2

----------------------------------------------------------------------------
(* A step of exit_loop or claim_loop never acts on a key that reached its *)
(* termination predicate, and only the key just synced can reach it.       *)
OneKeyAtATime ==
    mode \in {"exit", "claim"} =>
        /\ synced' # -1 => synced' \notin advanced
        /\ call'.task # "none" => call'.key \notin advanced'
        /\ advanced \subseteq advanced'
        /\ \A k \in advanced' \ advanced : k = synced'

(* C11: exit_loop and claim_loop take the keys strictly in collection     *)
(* order, one at a time: whenever a sync or a task acts on a key, every    *)
(* earlier key of the collection has reached its termination predicate    *)
(* and no later key has been started; and a key that reached its           *)
(* termination predicate is never acted on again.                          *)
C11_KeysInCollectionOrder ==
    /\ [](mode \in {"exit", "claim"} =>
             \A i \in 1..Len(keys) :
                 keys[i] \in started =>
                     /\ \A j \in 1..(i - 1) : keys[j] \in advanced
                     /\ keys[i] \notin advanced =>
                            \A j \in (i + 1)..Len(keys) : keys[j] \notin started)
    /\ [][OneKeyAtATime]_vars

C11_Witness ==
    /\ mode \in {"exit", "claim"}
    /\ Len(keys) = 2
    /\ keys[1] \in advanced
    /\ call.task # "none" /\ call.key = keys[2]

----------------------------------------------------------------------------
(* The leaves of the eligibility tree the batch must be proved against. *)
SelectedLeaves == IF is_short_term THEN ShortTermLeaves ELSE LongTermLeaves
SelectedRoot ==
    <<"root", IF is_short_term THEN "short_term" ELSE "long_term",
      SelectedLeaves>>

(* Witness i is the witness of event i. *)
BuiltFrom(w, event) ==
    /\ w.deposit = event.deposit
    /\ w.deposit_index \in 0..(Len(DepositTreeLeaves) - 1)
    /\ DepositTreeLeaves[w.deposit_index + 1] = DepositHash(event.deposit)
    /\ w.deposit_tree_root = <<"root", "deposit", DepositTreeLeaves>>
    /\ w.deposit_merkle_proof =
           [root |-> w.deposit_tree_root, index |-> w.deposit_index,
            leaf |-> DepositHash(event.deposit)]
    /\ w.eligible_index \in 0..(Len(SelectedLeaves) - 1)
    /\ SelectedLeaves[w.eligible_index + 1].deposit_index = w.deposit_index
    /\ \A j \in 1..w.eligible_index :
           SelectedLeaves[j].deposit_index # w.deposit_index
    /\ w.eligible_tree_root = SelectedRoot
    /\ w.eligible_leaf = SelectedLeaves[w.eligible_index + 1]
    /\ w.eligible_merkle_proof =
           [root |-> SelectedRoot, index |-> w.eligible_index,
            leaf |-> w.eligible_leaf]

(* C12: in every successful result witness i is built from event i, in     *)
(* input order: its deposit_index is the position of the hash of event i   *)
(* in the deposit tree, its eligible_index the leaf index of that          *)
(* deposit_index in the eligibility tree selected by is_short_term, and    *)
(* its proofs, leaf and roots come from those same two trees.              *)
C12_WitnessBuiltFromItsEvent ==
    Succeeded =>
        /\ Len(witnesses) = Len(events)
        /\ \A i \in 1..Len(witnesses) : BuiltFrom(witnesses[i], events[i])

C12_Witness ==
    /\ Succeeded
    /\ is_short_term
    /\ Len(witnesses) = 2
    /\ witnesses[1].deposit_index = 2 /\ witnesses[1].eligible_index = 0
    /\ witnesses[2].deposit_index = 0 /\ witnesses[2].eligible_index = 1

(* C13: within a batch every witness carries the same recipient, pubkey,   *)
(* deposit_tree_root and eligible_tree_root; the salt of witness i is      *)
(* derived from the deposit key and the tx_nonce of event i, so events of  *)
(* distinct nonces get distinct salts.  It holds of the witnesses built so *)
(* far at every point of the loop.                                         *)
C13_BatchSharesKeyAndRoots ==
    mode = "witness" =>
        /\ \A i, j \in 1..Len(witnesses) :
               /\ witnesses[i].recipient = witnesses[j].recipient
               /\ witnesses[i].pubkey = witnesses[j].pubkey
               /\ witnesses[i].deposit_tree_root = witnesses[j].deposit_tree_root
               /\ witnesses[i].eligible_tree_root = witnesses[j].eligible_tree_root
               /\ events[i].tx_nonce # events[j].tx_nonce =>
                      witnesses[i].salt # witnesses[j].salt
        /\ \A i \in 1..Len(witnesses) :
               /\ witnesses[i].salt =
                      DeriveSalt(ClaimKey.deposit_private_key, events[i].tx_nonce)
               /\ witnesses[i].pubkey = DerivePubkey(ClaimKey.deposit_private_key)
               /\ witnesses[i].recipient = RecipientOf(ClaimKey.withdrawal_address)

C13_Witness ==
    /\ Succeeded
    /\ Len(witnesses) = 2
    /\ events[1].deposit = events[2].deposit
    /\ events[1].tx_nonce # events[2].tx_nonce
    /\ witnesses[1].salt # witnesses[2].salt

----------------------------------------------------------------------------
(* The steps of one complete iteration that invokes the task, from its     *)
(* head sync on: of mining_loop when the task answered randomized, and of  *)
(* exit_loop and claim_loop.                                               *)
MiningIteration(randomized) ==
    <<"sync", "task", "sync">>
        \o (IF randomized THEN <<"mining_cooldown">> ELSE <<>>)
        \o <<"loop_cooldown">>
KeyIteration == <<"sync", "task", "loop_cooldown">>

FailureOf(step) ==
    CASE step = "sync" -> "sync_failed"
      [] step = "mining_cooldown" -> "mining_cooldown_failed"
      [] step = "loop_cooldown" -> "loop_cooldown_failed"
      [] OTHER -> "task"

(* steps follows whole, step by step, up to a last step that may have      *)
(* failed.                                                                 *)
Follows(steps, whole) ==
    /\ Len(steps) <= Len(whole)
    /\ \A i \in 1..Len(steps) :
           \/ steps[i] = whole[i]
           \/ i = Len(steps) /\ pc = "done" /\ steps[i] = FailureOf(whole[i])

(* C14: the cooldown discipline.  In mining_loop an iteration that invokes *)
(* the task sleeps the randomized cooldown iff the task answered true and  *)
(* then always the fixed cooldown, and only then comes the next sync.  In  *)
(* exit_loop and claim_loop the task is followed by exactly one fixed      *)
(* cooldown before the next sync and the randomized cooldown never occurs. *)
C14_CooldownDiscipline ==
    /\ mode = "mining" /\ Len(iteration) >= 2 /\ iteration[2] = "task" =>
           /\ Follows(iteration, MiningIteration(cooldown))
           /\ pc = "m_sync" => iteration = MiningIteration(cooldown)
    /\ mode \in {"exit", "claim"} =>
           /\ Follows(iteration, KeyIteration)
           /\ pc \in {"e_sync", "c_sync"} /\ Len(iteration) >= 2 =>
                  iteration = KeyIteration
           /\ cooldown_secs = -1 /\ mining_max_cooldown_in_sec = -1
    /\ ev = "mining_cooldown" => mode = "mining" /\ cooldown /\ cooldown_secs >= 0

C14_Witness ==
    /\ mode = "mining" /\ pc = "m_sync"
    /\ cooldown
    /\ iteration =
           <<"sync", "task", "sync", "mining_cooldown", "loop_cooldown">>

----------------------------------------------------------------------------
(* The last step was mining_cooldown with its settings loaded. *)
CooldownConfigured ==
    /\ mode = "mining"
    /\ ev \in {"mining_cooldown", "mining_cooldown_failed"}
    /\ mining_max_cooldown_in_sec >= 0

(* C15: for every configured mining_max_cooldown_in_sec, 0 included,       *)
(* mining_cooldown completes successfully after a sleep of d seconds with  *)
(* 0 <= d <= mining_max_cooldown_in_sec.                                   *)
C15_CooldownCompletesWithinBound ==
    CooldownConfigured =>
        /\ pc # "done"
        /\ cooldown_secs >= 0
        /\ cooldown_secs <= mining_max_cooldown_in_sec

----------------------------------------------------------------------------
MiningLeft == mode = "mining" /\ pc = "done"

(* The returns of mining_loop: the ? of a sync, of the balance validation, *)
(* of the mining task and of the mining cooldown.                          *)
ReturnedError ==
    /\ result.kind = "Err"
    /\ ev \in {"sync_failed", "validate", "task", "mining_cooldown_failed"}

(* The panics that unwind mining_loop: the expect of the fixed cooldown    *)
(* and the empty range of the randomized one.                              *)
Panicked ==
    /\ result.kind = "Panic"
    /\ \/ ev = "loop_cooldown_failed"
       \/ ev = "mining_cooldown_failed" /\ mining_max_cooldown_in_sec = 0

(* One key number is active at a time: every key number synced so far is   *)
(* the current one or one the loop advanced past, and every task is        *)
(* invoked for the current one.                                            *)
OneActiveKey ==
    /\ \A k \in started : k = key_number \/ (k < key_number /\ k \in advanced)
    /\ call.task # "none" => call.key = key_number
    /\ key_number >= start_key_number

KeyStepsByOne ==
    mode = "mining" /\ pc # "start" =>
        key_number' = key_number \/ key_number' = key_number + 1

----------------------------------------------------------------------------
ValidationFailed == mode = "mining" /\ ev = "validate" /\ pc = "done"

(* The validation reads the snapshot synced by the step before it, for the *)
(* same key; and nothing follows a failed validation.                      *)
ValidatesFreshSnapshot ==
    /\ mode = "mining" /\ ev' = "validate" =>
           ev = "sync" /\ synced = key_number /\ key_number' = key_number
    /\ ~ValidationFailed

(* C17: in mining_loop the balance validation of a key runs exactly once,  *)
(* on a freshly synced snapshot, before any mining task of that key; when  *)
(* it fails mining_loop returns the error at once, with key_number         *)
(* unchanged, no task invoked for that key and no other key tried.         *)
C17_ValidatedOnceBeforeTasks ==
    /\ [](mode = "mining" =>
             /\ \A i, j \in 1..Len(validated) :
                    i # j => validated[i] # validated[j]
             /\ call.task # "none" =>
                    \E i \in 1..Len(validated) : validated[i] = call.key
             /\ ev = "validate" => validated[Len(validated)] = key_number
             /\ ValidationFailed =>
                    /\ result.kind = "Err"
                    /\ call = NoCall
                    /\ key_number \notin advanced
                    /\ \A k \in started : k <= key_number)
    /\ [][ValidatesFreshSnapshot]_vars

C17_Witness ==
    /\ ValidationFailed
    /\ Len(validated) = 2
    /\ key_number = start_key_number + 1

----------------------------------------------------------------------------
(* The termination or advancement predicate of the running loop. *)
Terminated(status) ==
    CASE mode = "mining" -> MiningSettled(status, mining_times)
      [] mode = "exit" -> ExitDrained(status)
      [] mode = "claim" -> ClaimDrained(status)
      [] OTHER -> FALSE

TaskIsNext == pc \in {"m_task", "e_task", "c_task"}

(* A task is invoked right after a successful sync of its key, with the    *)
(* snapshot that sync returned; the decision to leave a key or to invoke   *)
(* the task is taken in the step of the sync, on the snapshot it returned. *)
DecidesOnFreshSnapshot ==
    /\ call'.task # "none" =>
           /\ ev = "sync" /\ synced = call'.key
           /\ call'.status = assets_status
           /\ ~Terminated(assets_status)
    /\ advanced' # advanced =>
           /\ ev' = "sync" /\ advanced' = advanced \cup {synced'}
           /\ Terminated(assets_status')
    /\ ~TaskIsNext /\ TaskIsNext' =>
           /\ ev' = "sync" /\ synced' # -1
           /\ ~Terminated(assets_status')

(* C18: in the three mode loops every task invocation and every            *)
(* termination or advancement decision uses the snapshot of the most       *)
(* recent sync of the same key, with no task and no cooldown between that  *)
(* sync and the decision; so no snapshot serves two task invocations.      *)
C18_AlwaysResyncBeforeDeciding ==
    [][DecidesOnFreshSnapshot]_vars

C18_Witness ==
    /\ mode \in {"mining", "exit", "claim"}
    /\ call.task # "none"
    /\ call.status = assets_status /\ call.status # NoStatus
    /\ advanced # {} /\ call.key \notin advanced

----------------------------------------------------------------------------
(* C19: get_tx_receipt gives up after at most 20 receipt queries, with a   *)
(* 10 second sleep between consecutive queries; it returns at the first    *)
(* query that yields a receipt or an error.                                *)
C19_AtMostTwentyQueries ==
    mode = "receipt" =>
        /\ receipt_queries <= 20
        /\ receipt_sleeps <= receipt_queries
        /\ ev = "give_up" => receipt_queries = 20

----------------------------------------------------------------------------
(* C20: balance_transfer sends a transaction only when the balance is      *)
(* strictly greater than gas_budget = 2 * estimated_gas * max_fee_per_gas, *)
(* and then of value balance - gas_budget, strictly positive and with      *)
(* value + gas_budget = balance; when balance <= gas_budget it sends       *)
(* nothing and returns success.                                            *)
C20_TransfersBalanceAboveBudget ==
    mode = "transfer" =>
        /\ pc \in {"t_send", "done"} /\ ev # "get_balance" /\ result.kind # "Err" =>
               gas_budget = 2 * estimated_gas * max_fee_per_gas
        /\ sent # -1 =>
               /\ gas_budget = 2 * estimated_gas * max_fee_per_gas
               /\ balance > gas_budget
               /\ sent = balance - gas_budget
               /\ sent > 0
               /\ sent + gas_budget = balance
        /\ ev = "estimate" /\ result.kind # "Err" /\ balance <= gas_budget =>
               pc = "done" /\ result = OkResult /\ sent = -1
        /\ ev = "estimate" /\ result.kind # "Err" /\ balance > gas_budget =>
               pc = "t_send"

C20_Witness ==
    /\ mode = "transfer" /\ pc = "done" /\ result = OkResult
    /\ sent = 1
    /\ gas_budget = 2 * MaxGas * MaxFee

====
